---- MODULE Spec2Model ----
(***************************************************************************)
(* NBC station smoke-test harness.                                         *)
(*                                                                         *)
(* Three testers run an ordered checklist against one browser driver:      *)
(*   "site"  NBCSiteTester      (nbc_multi_site_tester.py,  6 checks)      *)
(*   "nbc"   NBCStationTester   (nbc_test.py,              15 checks)      *)
(*   "multi" NBCStationTester   (multi_nbc_test.py,        13 checks)      *)
(* and NBCMultiSiteTester fans "site" sessions out on a thread pool.       *)
(* slack_reporter.py turns the test_summary.json of such a run into a      *)
(* Slack message and posts it to a webhook.                                *)
(*                                                                         *)
(* The browser is the environment.  What it does during one driver-facing  *)
(* step is an observation [exc, val]:                                      *)
(*   exc = "none"     no driver call raises; val is what the check reads   *)
(*         "timeout"  the first driver call raises TimeoutException        *)
(*         "error"    the first driver call raises another exception       *)
(*         "dead"     every driver call of the step raises, the ones made  *)
(*                    inside the step's exception handlers included        *)
(*         "late"     the driver call a check makes after recording its    *)
(*                    verdict raises (Weather Page Validation of nbc_test  *)
(*                    is the one check with such a call)                   *)
(*   val: for the page-load check the measured load time in milliseconds,  *)
(*        for the others the branch the assertion takes: 2 best, 1 middle, *)
(*        0 worst.                                                         *)
(* Slot 0 of an environment is driver creation ("nochrome": the browser    *)
(* cannot be started, "configfail": it starts and set_page_load_timeout    *)
(* raises), slots 1..n are the checks, slot n+1 is driver.quit()           *)
(* ("raises").                                                             *)
(***************************************************************************)
EXTENDS Integers, Sequences, FiniteSets, TLC

\* ---------------------------------------------------------------- bounds
NumSites == 2
MaxAnomalies == 2
MaxSlackSites == 6
MaxSiteFailures == 2

\* ------------------------------------------------------ program constants
WorkerCap == 10
FastLoadSec == 5
SlowLoadSec == 10
WarningCap == 5
AttentionCap == 5
HttpOk == 200

Kinds == {"site", "nbc", "multi"}

Chk(n, b, m, w, e, h) ==
    [name |-> n, best |-> b, mid |-> m, worst |-> w, exc |-> e, handler_calls |-> h]

\* The checks of NBCSiteTester in the order run_tests calls them: the verdict
\* of the best, middle and worst branch, and of the exception handlers.
SiteChecks ==
    << Chk("Homepage Load",       "PASS", "WARNING", "WARNING", "FAIL",    FALSE),
       Chk("Navigation Menu",     "PASS", "WARNING", "FAIL",    "FAIL",    FALSE),
       Chk("Search Feature",      "PASS", "WARNING", "WARNING", "WARNING", FALSE),
       Chk("Content Articles",    "PASS", "WARNING", "FAIL",    "FAIL",    FALSE),
       Chk("Footer Section",      "PASS", "WARNING", "WARNING", "FAIL",    FALSE),
       Chk("Responsive Elements", "PASS", "WARNING", "WARNING", "FAIL",    FALSE) >>

\* The checks of nbc_test.NBCStationTester.  Video Page Validation and the
\* link lookup of Weather Page Validation call an expected-condition with two
\* positional arguments, which raises TypeError before any wait: the video
\* check always lands in its outer handler, the weather check never finds a
\* link.  The weather check's handlers call driver.get again.
NbcChecks ==
    << Chk("Page Load Performance",    "PASS", "WARNING", "FAIL",    "FAIL",    FALSE),
       Chk("Page Size Check",          "PASS", "WARNING", "FAIL",    "FAIL",    FALSE),
       Chk("JavaScript Errors",        "PASS", "WARNING", "FAIL",    "WARNING", FALSE),
       Chk("Image Loading",            "PASS", "WARNING", "FAIL",    "FAIL",    FALSE),
       Chk("Video Page Validation",    "FAIL", "FAIL",    "FAIL",    "FAIL",    FALSE),
       Chk("Weather Page Validation",  "FAIL", "FAIL",    "FAIL",    "FAIL",    TRUE),
       Chk("Advertisement Validation", "PASS", "FAIL",    "FAIL",    "FAIL",    FALSE),
       Chk("Sports Section",           "PASS", "WARNING", "WARNING", "FAIL",    FALSE),
       Chk("Search Functionality",     "PASS", "FAIL",    "FAIL",    "FAIL",    FALSE),
       Chk("Social Media Buttons",     "PASS", "WARNING", "FAIL",    "FAIL",    FALSE),
       Chk("Footer Compliance",        "PASS", "WARNING", "FAIL",    "FAIL",    FALSE),
       Chk("Mobile Responsive",        "PASS", "WARNING", "WARNING", "FAIL",    FALSE),
       Chk("Scroll Performance",       "PASS", "PASS",    "PASS",    "WARNING", FALSE),
       Chk("Navigation Menu",          "PASS", "WARNING", "WARNING", "FAIL",    FALSE),
       Chk("Broken Links",             "PASS", "WARNING", "FAIL",    "FAIL",    FALSE) >>

\* The checks of multi_nbc_test.NBCStationTester.
MultiChecks ==
    << Chk("Page Load Performance",        "PASS", "WARNING", "FAIL", "FAIL",    FALSE),
       Chk("Page Size Check",              "PASS", "WARNING", "FAIL", "FAIL",    FALSE),
       Chk("JavaScript Errors",            "PASS", "WARNING", "FAIL", "WARNING", FALSE),
       Chk("Image Loading",                "PASS", "WARNING", "FAIL", "FAIL",    FALSE),
       Chk("Video Players (Presence)",     "PASS", "WARNING", "WARNING", "FAIL", FALSE),
       Chk("Weather Widget",               "PASS", "FAIL",    "FAIL", "FAIL",    FALSE),
       Chk("Mobile Responsive",            "PASS", "FAIL",    "FAIL", "FAIL",    FALSE),
       Chk("Advertisements (Presence)",    "PASS", "WARNING", "FAIL", "FAIL",    FALSE),
       Chk("Navigation Menu",              "PASS", "FAIL",    "FAIL", "FAIL",    FALSE),
       Chk("Footer Compliance",            "PASS", "WARNING", "FAIL", "FAIL",    FALSE),
       Chk("Weather Page Navigation",      "PASS", "FAIL",    "FAIL", "FAIL",    FALSE),
       Chk("Ad Iframe Validation",         "PASS", "FAIL",    "FAIL", "FAIL",    FALSE),
       Chk("Video Player Functional Test", "PASS", "FAIL",    "FAIL", "FAIL",    FALSE) >>

Checks(kind) ==
    CASE kind = "site"  -> SiteChecks
      [] kind = "nbc"   -> NbcChecks
      [] kind = "multi" -> MultiChecks

NumChecks(kind) == Len(Checks(kind))

\* ----------------------------------------------------------- environment
Obs(e, v) == [exc |-> e, val |-> v]

DefaultObs(kind, slot) ==
    IF slot = 1 THEN Obs("none", FastLoadSec * 1000 - 1) ELSE Obs("none", 2)

\* What else the browser can do in a slot.
AnomalyOptions(kind, slot) ==
    IF slot = 0 THEN {Obs("nochrome", 2), Obs("configfail", 2)}
    ELSE IF slot = NumChecks(kind) + 1 THEN {Obs("raises", 2)}
    ELSE IF slot = 1
         THEN {Obs("timeout", 0), Obs("error", 0), Obs("dead", 0)}
              \cup {Obs("none", v) : v \in {FastLoadSec * 1000,
                                            SlowLoadSec * 1000 - 1,
                                            SlowLoadSec * 1000}}
    ELSE {Obs("error", 0), Obs("dead", 0), Obs("none", 1), Obs("none", 0)}
         \cup (IF /\ slot <= NumChecks(kind)
                  /\ Checks(kind)[slot].name = "Weather Page Validation"
               THEN {Obs("late", 2)} ELSE {})

AllOptions == UNION {AnomalyOptions(k, s) : k \in Kinds, s \in 0..16}

EnvOf(kind, g) ==
    [slot \in 0..(NumChecks(kind) + 1) |->
        IF slot \in DOMAIN g THEN g[slot] ELSE DefaultObs(kind, slot)]

\* --------------------------------------------------------------- testers
Verdict(t, s) == [test |-> t, status |-> s]

\* The timeout parameter of NBCSiteTester.__init__ when the caller gives none.
DefaultTimeout == 20

\* __init__ of the three testers.  timeout is self.timeout of NBCSiteTester,
\* the page-load and wait timeout create_driver sets.  owner names the call of
\* test_single_site that made the tester object (the site; 0 outside the pool),
\* driver_by the tester whose create_driver made the browser object.  loc is
\* the page the browser shows ("blank" until the first navigation), seen the
\* page each check found when called.
NewTester ==
    [results |-> <<>>, driver |-> "none", self_driver |-> FALSE,
     invoked |-> <<>>, raised |-> FALSE, ret |-> TRUE,
     loc |-> "blank", seen |-> <<>>, timeout |-> DefaultTimeout,
     owner |-> 0, driver_by |-> 0]

SetupName(kind) == IF kind = "site" THEN "Driver Setup" ELSE "Browser Setup"

\* Whether the tester keeps a reference to a browser that was started and
\* then failed to configure: create_driver and setup_driver assign
\* self.driver before set_page_load_timeout, build_driver holds it in a local.
KeepsUnconfigured(kind) == kind \in {"site", "nbc"}

\* A create_driver that hands every tester one browser object of the module.
create_driver_Shared(kind, o, s) ==
    CASE o.exc = "none" ->
            [s EXCEPT !.driver = "live", !.self_driver = TRUE, !.ret = TRUE]
      [] o.exc = "nochrome" ->
            [s EXCEPT !.results = Append(@, Verdict(SetupName(kind), "ERROR")),
                      !.ret = FALSE]
      [] o.exc = "configfail" ->
            [s EXCEPT !.driver = "live",
                      !.self_driver = KeepsUnconfigured(kind),
                      !.results = Append(@, Verdict(SetupName(kind), "ERROR")),
                      !.ret = FALSE]

\* create_driver / setup_driver / setup: ret is the returned boolean.  Each
\* call starts a browser of its own (webdriver.Chrome(...)).
create_driver(kind, o, s) ==
    CASE o.exc = "none" ->
            [s EXCEPT !.driver = "live", !.self_driver = TRUE, !.ret = TRUE,
                      !.driver_by = s.owner]
      [] o.exc = "nochrome" ->
            [s EXCEPT !.results = Append(@, Verdict(SetupName(kind), "ERROR")),
                      !.ret = FALSE]
      [] o.exc = "configfail" ->
            [s EXCEPT !.driver = "live",
                      !.driver_by = s.owner,
                      !.self_driver = KeepsUnconfigured(kind),
                      !.results = Append(@, Verdict(SetupName(kind), "ERROR")),
                      !.ret = FALSE]

\* The branch a check's assertion takes: the page-load checks grade the
\* measured load time, the others read the branch off the observation.
Grade(i, val) ==
    IF i = 1
    THEN (IF val < FastLoadSec * 1000 THEN 2
          ELSE IF val < SlowLoadSec * 1000 THEN 1 ELSE 0)
    ELSE val

CheckStatus(kind, i, o) ==
    LET c == Checks(kind)[i]
        g == Grade(i, o.val)
    IN IF o.exc # "none" THEN c.exc
       ELSE IF g = 2 THEN c.best
       ELSE IF g = 1 THEN c.mid
       ELSE c.worst

\* An exception leaves a check when its handler's own driver call raises.
Escapes(kind, i, o) == Checks(kind)[i].handler_calls /\ o.exc = "dead"

WeatherChecks == {"Weather Page Validation", "Weather Page Navigation"}

\* The page the browser shows when check i returns.  The page-load checks open
\* the homepage.  Weather Page Navigation (multi_nbc_test) opens the homepage,
\* clicks the weather link and returns.  Weather Page Validation (nbc_test)
\* opens the homepage, finds no link and returns; its handlers open the
\* homepage again.  No other check navigates.
Location(kind, i, o, loc) ==
    CASE i = 1 ->
            IF o.exc \in {"none", "timeout"} THEN "home" ELSE loc
      [] Checks(kind)[i].name = "Weather Page Navigation" ->
            IF o.exc = "none" THEN "weather" ELSE loc
      [] Checks(kind)[i].name = "Weather Page Validation" ->
            IF o.exc \in {"none", "error", "late"} THEN "home" ELSE loc
      [] OTHER -> loc

\* A link lookup whose expected-condition call is well formed: it finds the
\* weather link whenever the homepage loads.
FindsWeatherLink_OneArgument(kind, o) == o.exc \in {"none", "late"}

\* Whether the link lookup of Weather Page Validation finds the weather link.
\* EC.element_to_be_clickable is called with two positional arguments and
\* raises TypeError for every selector; the bare except moves on to the next
\* selector and weather_link stays None.
FindsWeatherLink(kind, o) == FALSE

\* The verdicts one call of check i appends to self.results.  Every check
\* records its verdict as the last statement of a path through its try block
\* or in the handler that catches the exception.  Weather Page Validation
\* alone records the verdict of a found link and then calls driver.get inside
\* the same try block: when that call raises, the handler records a second
\* verdict.
Appended(kind, i, o) ==
    LET name == Checks(kind)[i].name
    IN IF name = "Weather Page Validation" /\ FindsWeatherLink(kind, o)
       THEN (IF o.exc = "late"
             THEN <<Verdict(name, "PASS"), Verdict(name, "FAIL")>>
             ELSE <<Verdict(name, IF o.val = 2 THEN "PASS" ELSE "FAIL")>>)
       ELSE <<Verdict(name, CheckStatus(kind, i, o))>>

\* A check method that puts its verdict in front of the list.
RunCheck_Prepend(kind, i, o, s) ==
    [s EXCEPT !.invoked = Append(@, Checks(kind)[i].name),
              !.results = Appended(kind, i, o) \o @,
              !.raised  = Escapes(kind, i, o),
              !.ret     = (CheckStatus(kind, i, o) # "FAIL"),
              !.seen    = Append(@, s.loc),
              !.loc     = Location(kind, i, o, s.loc)]

\* One call of a check method: it appends its verdict; ret is its return
\* value where a caller reads it (test_page_performance of nbc_test).
RunCheck(kind, i, o, s) ==
    LET st == CheckStatus(kind, i, o)
    IN [s EXCEPT !.invoked = Append(@, Checks(kind)[i].name),
                 !.results = @ \o Appended(kind, i, o),
                 !.raised  = Escapes(kind, i, o),
                 !.ret     = (st # "FAIL"),
                 !.seen    = Append(@, s.loc),
                 !.loc     = Location(kind, i, o, s.loc)]

\* Checks i..n in sequence, until one lets an exception out.  Each check works
\* on the tester as the check before it left it (x, evaluated once).
RECURSIVE RunFrom(_, _, _, _)
RunFrom(kind, env, i, s) ==
    IF i > NumChecks(kind) \/ s.raised THEN s
    ELSE CHOOSE r \in {RunFrom(kind, env, i + 1, x) :
                          x \in {RunCheck(kind, i, env[i], s)}} : TRUE

SkipStatus_Fail == "FAIL"

SkipStatus == "SKIP"

RECURSIVE SkipFrom(_, _, _)
SkipFrom(kind, i, s) ==
    IF i > NumChecks(kind) THEN s
    ELSE SkipFrom(kind, i + 1,
            [s EXCEPT !.results = Append(@, Verdict(Checks(kind)[i].name, SkipStatus))])

\* Whether the checks after the page-load check run.
HomepageGate(kind, s) ==
    CASE kind = "site"  -> Len(s.results) > 0 /\ s.results[1].status # "FAIL"
      [] kind = "nbc"   -> s.ret
      [] kind = "multi" -> TRUE

\* The try body of run_tests / run_all_tests / run_all.
RunSuite(kind, env, s) ==
    LET s1 == RunCheck(kind, 1, env[1], s)
        s2 == IF s1.raised THEN s1
              ELSE IF HomepageGate(kind, s1) THEN RunFrom(kind, env, 2, s1)
              ELSE IF kind = "site" THEN SkipFrom(kind, 2, s1)
              ELSE s1
    IN IF kind = "site" /\ s2.raised
       THEN [s2 EXCEPT !.results = Append(@, Verdict("Test Execution", "ERROR")),
                       !.raised = FALSE]
       ELSE s2

\* Whether an exception of driver.quit() is caught where quit is called.
QuitGuarded(kind) == kind \in {"site", "multi"}

\* The finally block: quit the driver the tester holds.
Cleanup(kind, o, s) ==
    IF s.self_driver
    THEN [s EXCEPT !.driver = "quit",
                   !.raised = @ \/ (o.exc = "raises" /\ ~QuitGuarded(kind))]
    ELSE s

Count(results, statuses) ==
    Cardinality({i \in 1..Len(results) : results[i].status \in statuses})

\* A failure count that takes the warnings in.
FailedStatuses_WithWarnings(kind) ==
    IF kind = "site" THEN {"FAIL", "ERROR", "WARNING"} ELSE {"FAIL", "WARNING"}

\* The statuses the 'failed' counter of a summary counts.
FailedStatuses(kind) == IF kind = "site" THEN {"FAIL", "ERROR"} ELSE {"FAIL"}

\* A summary whose overall status looks at the FAIL verdicts alone.
get_summary_IgnoreErrors(kind, name, results) ==
    [site_name |-> name,
     total_tests |-> Len(results),
     passed |-> Count(results, {"PASS"}),
     failed |-> Count(results, {"FAIL"}),
     warnings |-> Count(results, {"WARNING"}),
     skipped |-> IF kind = "site" THEN Count(results, {"SKIP"}) ELSE -1,
     errors |-> IF kind = "site" THEN -1 ELSE Count(results, {"ERROR"}),
     success_rate |-> IF Len(results) > 0
                      THEN (Count(results, {"PASS"}) * 100) \div Len(results) ELSE 0,
     overall_status |-> IF kind = "site" THEN "-"
                        ELSE IF Count(results, {"FAIL"}) = 0 THEN "PASS" ELSE "FAIL",
     test_results |-> results,
     error |-> ""]

\* A summary whose warning counter takes the ERROR verdicts in as well.
get_summary_ErrorsAsWarnings(kind, name, results) ==
    [site_name |-> name,
     total_tests |-> Len(results),
     passed |-> Count(results, {"PASS"}),
     failed |-> Count(results, FailedStatuses(kind)),
     warnings |-> Count(results, {"WARNING", "ERROR"}),
     skipped |-> IF kind = "site" THEN Count(results, {"SKIP"}) ELSE -1,
     errors |-> IF kind = "site" THEN -1 ELSE Count(results, {"ERROR"}),
     success_rate |-> IF Len(results) > 0
                      THEN (Count(results, {"PASS"}) * 100) \div Len(results) ELSE 0,
     overall_status |-> IF kind = "site" THEN "-"
                        ELSE IF Count(results, {"FAIL", "ERROR"}) = 0
                             THEN "PASS" ELSE "FAIL",
     test_results |-> results,
     error |-> ""]

\* get_summary / summary.  The station testers count errors apart and derive
\* overall_status; the site tester counts skips and a success rate.
get_summary(kind, name, results) ==
    LET total  == Len(results)
        passed == Count(results, {"PASS"})
        failed == Count(results, FailedStatuses(kind))
        errors == Count(results, {"ERROR"})
    IN [site_name |-> name,
        total_tests |-> total,
        passed |-> passed,
        failed |-> failed,
        warnings |-> Count(results, {"WARNING"}),
        skipped |-> IF kind = "site" THEN Count(results, {"SKIP"}) ELSE -1,
        errors |-> IF kind = "site" THEN -1 ELSE errors,
        success_rate |-> IF total > 0 THEN (passed * 100) \div total ELSE 0,
        overall_status |-> IF kind = "site" THEN "-"
                           ELSE IF failed = 0 /\ errors = 0 THEN "PASS" ELSE "FAIL",
        test_results |-> results,
        error |-> ""]

\* What run_tests returns when create_driver failed: the site tester builds
\* the record by hand, the station testers return their summary.
SetupFailedSummary(kind, name, results) ==
    IF kind = "site"
    THEN [site_name |-> name, total_tests |-> 1, passed |-> 0, failed |-> 1,
          warnings |-> 0, skipped |-> -1, errors |-> -1, success_rate |-> 0,
          overall_status |-> "-", test_results |-> results,
          error |-> "Chrome driver initialization failed"]
    ELSE get_summary(kind, name, results)

NoSummary == [site_name |-> 0, total_tests |-> 0, passed |-> 0, failed |-> 0,
              warnings |-> 0, skipped |-> -1, errors |-> -1, success_rate |-> 0,
              overall_status |-> "-", test_results |-> <<>>, error |-> "-"]

\* ------------------------------------------------------------ entry points
StationsFailed(all) ==
    Cardinality({i \in 1..Len(all) : all[i].overall_status = "FAIL"})

SitesPassed(all) ==
    Cardinality({i \in 1..Len(all) : all[i].failed = 0 /\ all[i].error = ""})

\* What main returns to sys.exit, given the results of the targets it ran.
main(kind, all) ==
    CASE kind = "site"  -> IF SitesPassed(all) = Len(all) THEN 0 ELSE 1
      [] kind = "nbc"   -> 0
      [] kind = "multi" -> IF StationsFailed(all) = 0 THEN 0 ELSE 1

\* ---------------------------------------------------------------- reports
RECURSIVE SumUpTo(_, _, _)
SumUpTo(all, f, n) == IF n = 0 THEN 0 ELSE all[n][f] + SumUpTo(all, f, n - 1)

\* sum(s[f] for s in self.all_results)
SumField(all, f) == SumUpTo(all, f, Len(all))

\* The sort key of the HTML table: higher success rate first, then by name.
RowBefore(a, b) ==
    \/ a.success_rate > b.success_rate
    \/ a.success_rate = b.success_rate /\ a.site_name < b.site_name

\* The place entry i of the list takes in the sorted list: behind the entries
\* with a smaller key and, the sort being stable, behind the earlier entries
\* with an equal key.
Rank(all, i) ==
    1 + Cardinality({j \in 1..Len(all) :
            \/ RowBefore(all[j], all[i])
            \/ ~RowBefore(all[i], all[j]) /\ j < i})

\* sorted(self.all_results, key=...)
SortRows(all) ==
    [k \in 1..Len(all) |-> all[CHOOSE i \in 1..Len(all) : Rank(all, i) = k]]

NamesOf(all) == [i \in 1..Len(all) |-> all[i].site_name]

\* generate_html_report: the site names of the table rows, top to bottom.
generate_html_report(all) == NamesOf(SortRows(all))

\* generate_json_summary: what goes into test_summary.json.
generate_json_summary(all) ==
    [total_sites |-> Len(all),
     sites_passed |-> SitesPassed(all),
     sites_failed |-> Cardinality({i \in 1..Len(all) :
                                     all[i].failed > 0 \/ all[i].error # ""}),
     sites_with_warnings |-> Cardinality({i \in 1..Len(all) : all[i].warnings > 0}),
     total_tests |-> SumField(all, "total_tests"),
     total_passed |-> SumField(all, "passed"),
     total_failed |-> SumField(all, "failed"),
     total_warnings |-> SumField(all, "warnings"),
     sites |-> all]

NoReports == [written |-> FALSE, html |-> <<>>, json |-> generate_json_summary(<<>>)]

\* ------------------------------------------------------------------ state
VARIABLES
    kind,        \* the tester of the single session
    env,         \* what its browser does, slot by slot
    tester,      \* the tester object
    tpc,         \* where its run is: "new", "ready", "ran", "returned", "raised"
    summary,     \* what the run returned
    workers_arg, \* max_workers as passed to NBCMultiSiteTester
    max_workers, \* self.max_workers
    behav,       \* per site, what its browser does (a scenario)
    opc,         \* run_all_tests: "off", "running", "returned"
    submitted,   \* how many futures executor.submit has created
    sess,        \* per site, its future's progress and its NBCSiteTester
    future,      \* per site, the value its future holds once done
    overtime,    \* per site, whether its session has run past the result timeout
    yielded,     \* the futures as_completed has handed out
    all_results, \* self.all_results
    exit_code,   \* the exit status of the process: <<>> while it runs
    reports,     \* multi_site_report.html and test_summary.json
    run,         \* which call of run_all_tests this is: "first", or a second
                 \* one on the "same" orchestrator or on a "fresh" one
    first,       \* what the first call returned and wrote, once it is over
    sites_arg,   \* --sites: whether given, and the names it lists
    timeout_arg, \* --timeout
    mpc,         \* main of nbc_multi_site_tester: "off", "start", "parsed",
                 \* "constructed", "pooled", "exited"
    sites_to_test,   \* the sites main selects
    session_timeout, \* per site, the timeout of the tester made for it (0: none yet)
    slack_file,  \* test_summary.json as slack_reporter finds it
    webhook_set, \* whether SLACK_WEBHOOK_URL is set
    http,        \* what requests.post does: raises, or answers with a status
    message,     \* what send_to_slack returned: <<>> for None
    spc,         \* slack_reporter's main block: "off", "start", "prepared",
                 \* "done", or "raised" when send_to_slack lets an exception out
    sent,        \* what send_via_webhook returned: <<>> while not called
    posts        \* how many times requests.post was called

session_vars == <<kind, env, tester, tpc, summary>>
orch_vars == <<workers_arg, max_workers, behav, opc, submitted, sess, future,
               overtime, yielded, all_results>>
report_vars == <<reports, run, first>>
cli_vars == <<sites_arg, timeout_arg, mpc, sites_to_test, session_timeout>>
slack_vars == <<slack_file, webhook_set, http, message, spc, sent, posts>>
beyond_vars == <<exit_code, report_vars, cli_vars, slack_vars>>
vars == <<kind, env, tester, tpc, summary, workers_arg, max_workers, behav, opc,
          submitted, sess, future, overtime, yielded, all_results, exit_code,
          reports, run, first, sites_arg, timeout_arg, mpc, sites_to_test,
          session_timeout, slack_file, webhook_set, http, message, spc, sent,
          posts>>

Sites == 1..NumSites

NoRun == [returned |-> <<>>, reports |-> NoReports]

ReportsOff ==
    /\ reports = NoReports
    /\ run = "first"
    /\ first = NoRun

NoSitesArg == [given |-> FALSE, names |-> {}]

\* The command line while main is not studied: every option at its default.
CliOff ==
    /\ sites_arg = NoSitesArg
    /\ timeout_arg = DefaultTimeout
    /\ mpc = "off"
    /\ sites_to_test = Sites
    /\ session_timeout = [t \in Sites |-> 0]

\* No test_summary.json in the working directory.
NoFile == [state |-> "missing", json |-> generate_json_summary(<<>>)]

\* requests.post was not called.
NoResponse == [raised |-> FALSE, status |-> 0]

\* slack_reporter while it is not run.
SlackOff ==
    /\ slack_file = NoFile
    /\ webhook_set = FALSE
    /\ http = NoResponse
    /\ message = <<>>
    /\ spc = "off"
    /\ sent = <<>>
    /\ posts = 0

\* The orchestrator's variables while a single session is studied alone.
OrchestratorOff ==
    /\ workers_arg = 0
    /\ max_workers = 0
    /\ behav = [t \in Sites |-> "allpass"]
    /\ opc = "off"
    /\ submitted = 0
    /\ sess = [t \in Sites |-> [pc |-> "none", tester |-> NewTester]]
    /\ future = [t \in Sites |-> NoSummary]
    /\ overtime = [t \in Sites |-> FALSE]
    /\ yielded = {}
    /\ all_results = <<>>

\* ---------------------------------------------------- one session, alone
InitSession ==
    /\ kind \in Kinds
    /\ \E A \in SUBSET (0..(NumChecks(kind) + 1)) :
          /\ Cardinality(A) <= MaxAnomalies
          /\ \E g \in [A -> AllOptions] :
                /\ \A a \in A : g[a] \in AnomalyOptions(kind, a)
                /\ env = EnvOf(kind, g)
    /\ tester = NewTester
    /\ tpc = "new"
    /\ summary = NoSummary
    /\ OrchestratorOff
    /\ exit_code = <<>>
    /\ ReportsOff
    /\ CliOff
    /\ SlackOff

\* run_tests up to the driver: on failure it returns at once.
SessionSetup ==
    /\ tpc = "new"
    /\ LET s == create_driver(kind, env[0], tester)
       IN /\ tester' = s
          /\ IF s.ret
             THEN /\ tpc' = "ready"
                  /\ UNCHANGED summary
             ELSE /\ tpc' = "returned"
                  /\ summary' = SetupFailedSummary(kind, 1, s.results)
    /\ UNCHANGED <<kind, env>>
    /\ UNCHANGED <<orch_vars, beyond_vars>>

SessionChecks ==
    /\ tpc = "ready"
    /\ tester' = RunSuite(kind, env, tester)
    /\ tpc' = "ran"
    /\ UNCHANGED <<kind, env, summary>>
    /\ UNCHANGED <<orch_vars, beyond_vars>>

\* The finally block, then the summary unless an exception is on its way out.
SessionFinish ==
    /\ tpc = "ran"
    /\ LET s == Cleanup(kind, env[NumChecks(kind) + 1], tester)
       IN /\ tester' = s
          /\ IF s.raised
             THEN /\ tpc' = "raised"
                  /\ UNCHANGED summary
             ELSE /\ tpc' = "returned"
                  /\ summary' = get_summary(kind, 1, s.results)
    /\ UNCHANGED <<kind, env>>
    /\ UNCHANGED <<orch_vars, beyond_vars>>

\* main of the station testers, run on one station: the exit status is what
\* main returns, or 1 when run_all_tests let an exception out.
SessionMain ==
    /\ kind \in {"nbc", "multi"}
    /\ tpc \in {"returned", "raised"}
    /\ exit_code = <<>>
    /\ exit_code' = <<IF tpc = "raised" THEN 1 ELSE main(kind, <<summary>>)>>
    /\ UNCHANGED <<session_vars, orch_vars, report_vars, cli_vars>>
    /\ UNCHANGED slack_vars

NextSession == SessionSetup \/ SessionChecks \/ SessionFinish \/ SessionMain

SpecSession == InitSession /\ [][NextSession]_vars

\* ------------------------------------------------- NBCMultiSiteTester
\* A scenario fixes what one site's browser does for the whole session.
\* "slowpass" passes every check and takes longer than the result timeout,
\* "hang" never answers the page load, "fatal" makes run_tests raise while it
\* builds its summary.
Scenarios ==
    {"allpass", "nochrome", "configfail", "loadtimeout", "checkfail",
     "slowpass", "hang", "fatal"}

ScenarioEnv(b) ==
    CASE b = "nochrome"    -> EnvOf("site", 0 :> Obs("nochrome", 2))
      [] b = "configfail"  -> EnvOf("site", 0 :> Obs("configfail", 2))
      [] b = "loadtimeout" -> EnvOf("site", 1 :> Obs("timeout", 0))
      [] b = "checkfail"   -> EnvOf("site", 4 :> Obs("none", 0))
      [] OTHER             -> EnvOf("site", <<>>)

Timing(b) ==
    CASE b = "slowpass" -> "slow"
      [] b = "hang"     -> "hang"
      [] OTHER          -> "fast"

WorkerArgs == {1, 2, 12}

Min(a, b) == IF a < b THEN a ELSE b

\* A pool as large as the caller asks.
PoolSize_Uncapped(arg) == arg

\* NBCMultiSiteTester.__init__
PoolSize(arg) == Min(arg, WorkerCap)

\* The record test_single_site returns when run_tests raises.
FatalRecord(name) ==
    [site_name |-> name, total_tests |-> 1, passed |-> 0, failed |-> 1,
     warnings |-> 0, skipped |-> -1, errors |-> -1, success_rate |-> 0,
     overall_status |-> "-", test_results |-> <<Verdict("Site Test", "ERROR")>>,
     error |-> "fatal"]

\* The record run_all_tests appends when future.result raises.
ExecutionRecord(name) ==
    [site_name |-> name, total_tests |-> 1, passed |-> 0, failed |-> 1,
     warnings |-> 0, skipped |-> -1, errors |-> -1, success_rate |-> 0,
     overall_status |-> "-", test_results |-> <<Verdict("Execution", "ERROR")>>,
     error |-> ""]

\* One tester object handed from site to site instead of a new one per call.
FreshTester_Reused(t) == IF t > 1 THEN sess[t - 1].tester ELSE NewTester

\* test_single_site: a tester of its own for every call.
FreshTester(t) == [NewTester EXCEPT !.owner = t]

\* test_single_site: what the call returns, given whether run_tests raised.
test_single_site(name, raised, results) ==
    IF raised THEN FatalRecord(name) ELSE get_summary("site", name, results)

Running == {t \in Sites : sess[t].pc \in {"started", "ready", "ran"}}

\* An as_completed that hands a finished future out again.
Completed_Again == {t \in Sites : sess[t].pc = "done"}

\* as_completed: the futures that are done and not handed out yet.
Completed == {t \in Sites : sess[t].pc = "done"} \ yielded

\* future.result(timeout=60) on a future as_completed handed out: the future
\* is done, so the call returns its value at once; a wait that could time out
\* needs a future that is still running.
FutureResult(t) ==
    IF sess[t].pc = "done" THEN [raised |-> FALSE, value |-> future[t]]
    ELSE [raised |-> overtime[t], value |-> NoSummary]

\* A loop body that leaves out the results that carry an error.
ProcessFuture_DropErrors(all, name, r) ==
    IF r.raised \/ r.value.error # "" THEN all ELSE Append(all, r.value)

\* A loop body that puts the newest result first.
ProcessFuture_Prepend(all, name, r) ==
    IF r.raised THEN <<ExecutionRecord(name)>> \o all ELSE <<r.value>> \o all

\* The body of the collection loop: append the result, or the error record
\* when future.result raised.
ProcessFuture(all, name, r) ==
    IF r.raised THEN Append(all, ExecutionRecord(name)) ELSE Append(all, r.value)

Init ==
    /\ kind = "site"
    /\ env = EnvOf("site", <<>>)
    /\ tester = NewTester
    /\ tpc = "off"
    /\ summary = NoSummary
    /\ workers_arg \in WorkerArgs
    /\ max_workers = PoolSize(workers_arg)
    /\ behav \in [Sites -> Scenarios]
    /\ opc = "running"
    /\ submitted = 0
    /\ sess = [t \in Sites |-> [pc |-> "none", tester |-> NewTester]]
    /\ future = [t \in Sites |-> NoSummary]
    /\ overtime = [t \in Sites |-> FALSE]
    /\ yielded = {}
    /\ all_results = <<>>
    /\ exit_code = <<>>
    /\ ReportsOff
    /\ CliOff
    /\ SlackOff

\* executor.submit for the next site of sites_to_test.
Submit ==
    /\ opc = "running"
    /\ submitted < NumSites
    /\ submitted' = submitted + 1
    /\ sess' = [sess EXCEPT ![submitted + 1].pc = "pending"]
    /\ UNCHANGED <<workers_arg, max_workers, behav, opc, future, overtime,
                   yielded, all_results>>
    /\ UNCHANGED <<session_vars, beyond_vars>>

\* A pool thread takes the oldest queued call and enters test_single_site.
WorkerStart(t) ==
    /\ sess[t].pc = "pending"
    /\ \A u \in Sites : u < t => sess[u].pc # "pending"
    /\ Cardinality(Running) < max_workers
    /\ sess' = [sess EXCEPT ![t] = [pc |-> "started", tester |-> FreshTester(t)]]
    /\ UNCHANGED <<workers_arg, max_workers, behav, opc, submitted, future,
                   overtime, yielded, all_results>>
    /\ UNCHANGED <<session_vars, beyond_vars>>

\* run_tests up to the driver; a failed create_driver ends the call.
SiteSetup(t) ==
    /\ sess[t].pc = "started"
    /\ LET s == create_driver("site", ScenarioEnv(behav[t])[0], sess[t].tester)
       IN IF s.ret
          THEN /\ sess' = [sess EXCEPT ![t] = [pc |-> "ready", tester |-> s]]
               /\ UNCHANGED future
          ELSE /\ sess' = [sess EXCEPT ![t] = [pc |-> "done", tester |-> s]]
               /\ future' = [future EXCEPT
                               ![t] = SetupFailedSummary("site", t, s.results)]
    /\ UNCHANGED <<workers_arg, max_workers, behav, opc, submitted, overtime,
                   yielded, all_results>>
    /\ UNCHANGED <<session_vars, beyond_vars>>

\* The session has been running for longer than the result timeout.
TimeoutElapses(t) ==
    /\ sess[t].pc = "ready"
    /\ Timing(behav[t]) # "fast"
    /\ ~overtime[t]
    /\ overtime' = [overtime EXCEPT ![t] = TRUE]
    /\ UNCHANGED <<workers_arg, max_workers, behav, opc, submitted, sess, future,
                   yielded, all_results>>
    /\ UNCHANGED <<session_vars, beyond_vars>>

\* The try body of run_tests; a hung page load never gets here.
SiteRun(t) ==
    /\ sess[t].pc = "ready"
    /\ \/ Timing(behav[t]) = "fast"
       \/ Timing(behav[t]) = "slow" /\ overtime[t]
    /\ sess' = [sess EXCEPT ![t] = [pc |-> "ran",
                   tester |-> RunSuite("site", ScenarioEnv(behav[t]), sess[t].tester)]]
    /\ UNCHANGED <<workers_arg, max_workers, behav, opc, submitted, future,
                   overtime, yielded, all_results>>
    /\ UNCHANGED <<session_vars, beyond_vars>>

\* The finally block of run_tests, its summary, and the return of
\* test_single_site, which completes the future.
SiteFinish(t) ==
    /\ sess[t].pc = "ran"
    /\ LET s == Cleanup("site", ScenarioEnv(behav[t])[NumChecks("site") + 1],
                        sess[t].tester)
       IN /\ sess' = [sess EXCEPT ![t] = [pc |-> "done", tester |-> s]]
          /\ future' = [future EXCEPT ![t] =
                test_single_site(t, s.raised \/ behav[t] = "fatal", s.results)]
    /\ UNCHANGED <<workers_arg, max_workers, behav, opc, submitted, overtime,
                   yielded, all_results>>
    /\ UNCHANGED <<session_vars, beyond_vars>>

\* One turn of the collection loop.
Collect(t) ==
    /\ opc = "running"
    /\ submitted = NumSites
    /\ t \in Completed
    /\ yielded' = yielded \cup {t}
    /\ all_results' = ProcessFuture(all_results, t, FutureResult(t))
    /\ UNCHANGED <<workers_arg, max_workers, behav, opc, submitted, sess, future,
                   overtime>>
    /\ UNCHANGED <<session_vars, beyond_vars>>

\* A run_all_tests that leaves the loop and reports as soon as every site is
\* submitted, without waiting for the pool.
Return_Early ==
    /\ opc = "running"
    /\ submitted = NumSites
    /\ opc' = "returned"
    /\ reports' = [written |-> TRUE,
                   html |-> generate_html_report(all_results),
                   json |-> generate_json_summary(all_results)]
    /\ UNCHANGED <<workers_arg, max_workers, behav, submitted, sess, future,
                   overtime, yielded, all_results>>
    /\ UNCHANGED <<session_vars, exit_code, run, first, cli_vars>>
    /\ UNCHANGED slack_vars

\* The loop is over, the pool shuts down, the reports are written.
Return ==
    /\ opc = "running"
    /\ submitted = NumSites
    /\ yielded = Sites
    /\ opc' = "returned"
    /\ reports' = [written |-> TRUE,
                   html |-> generate_html_report(all_results),
                   json |-> generate_json_summary(all_results)]
    /\ UNCHANGED <<workers_arg, max_workers, behav, submitted, sess, future,
                   overtime, yielded, all_results>>
    /\ UNCHANGED <<session_vars, exit_code, run, first, cli_vars>>
    /\ UNCHANGED slack_vars

\* A second call of run_all_tests on the same site list: on the orchestrator
\* of the first call, whose all_results __init__ alone assigns, or on a new one.
Rerun(mode) ==
    /\ opc = "returned"
    /\ run = "first"
    /\ run' = mode
    /\ first' = [returned |-> all_results, reports |-> reports]
    /\ opc' = "running"
    /\ submitted' = 0
    /\ sess' = [t \in Sites |-> [pc |-> "none", tester |-> NewTester]]
    /\ future' = [t \in Sites |-> NoSummary]
    /\ overtime' = [t \in Sites |-> FALSE]
    /\ yielded' = {}
    /\ all_results' = IF mode = "same" THEN all_results ELSE <<>>
    /\ UNCHANGED <<workers_arg, max_workers, behav, exit_code, reports>>
    /\ UNCHANGED <<session_vars, cli_vars>>
    /\ UNCHANGED slack_vars

\* main of nbc_multi_site_tester after run_all_tests has returned.
Main ==
    /\ opc = "returned"
    /\ exit_code = <<>>
    /\ exit_code' = <<main("site", all_results)>>
    /\ UNCHANGED <<session_vars, orch_vars, report_vars, cli_vars>>
    /\ UNCHANGED slack_vars

Next ==
    \/ Submit
    \/ \E t \in Sites : WorkerStart(t)
    \/ \E t \in Sites : SiteSetup(t)
    \/ \E t \in Sites : TimeoutElapses(t)
    \/ \E t \in Sites : SiteRun(t)
    \/ \E t \in Sites : SiteFinish(t)
    \/ \E t \in Sites : Collect(t)
    \/ Return
    \/ Main

Spec == Init /\ [][Next]_vars

\* Two calls of run_all_tests in a row, on sites whose sessions end.
RerunScenarios == {"allpass", "nochrome", "checkfail", "slowpass"}

InitRerun == Init /\ behav \in [Sites -> RerunScenarios]

NextRerun ==
    \/ Submit
    \/ \E t \in Sites : WorkerStart(t)
    \/ \E t \in Sites : SiteSetup(t)
    \/ \E t \in Sites : TimeoutElapses(t)
    \/ \E t \in Sites : SiteRun(t)
    \/ \E t \in Sites : SiteFinish(t)
    \/ \E t \in Sites : Collect(t)
    \/ Return
    \/ \E mode \in {"same", "fresh"} : Rerun(mode)

SpecRerun == InitRerun /\ [][NextRerun]_vars

\* ------------------------------------- main of nbc_multi_site_tester
\* The configured sites are Sites; 0 stands for a name that is none of them.
SitesArgs ==
    {NoSitesArg} \cup {[given |-> TRUE, names |-> N] : N \in SUBSET (0..NumSites)}

TimeoutArgs == {5, DefaultTimeout, 45}

\* --workers takes any integer (type=int).
MainWorkerArgs == WorkerArgs \cup {-1, 0}

InitMain ==
    /\ kind = "site"
    /\ env = EnvOf("site", <<>>)
    /\ tester = NewTester
    /\ tpc = "off"
    /\ summary = NoSummary
    /\ workers_arg \in MainWorkerArgs
    /\ max_workers = 0
    /\ behav = [t \in Sites |-> "allpass"]
    /\ opc = "off"
    /\ submitted = 0
    /\ sess = [t \in Sites |-> [pc |-> "none", tester |-> NewTester]]
    /\ future = [t \in Sites |-> NoSummary]
    /\ overtime = [t \in Sites |-> FALSE]
    /\ yielded = {}
    /\ all_results = <<>>
    /\ exit_code = <<>>
    /\ ReportsOff
    /\ sites_arg \in SitesArgs
    /\ timeout_arg \in TimeoutArgs
    /\ mpc = "start"
    /\ sites_to_test = Sites
    /\ session_timeout = [t \in Sites |-> 0]
    /\ SlackOff

\* The site filter of main: an absent or empty --sites selects every site.
SelectSites(arg) ==
    IF arg.given /\ arg.names # {} THEN arg.names \cap Sites ELSE Sites

\* main from parse_args to the site filter; it returns 1 when no name matches.
ParseArgs ==
    /\ mpc = "start"
    /\ sites_to_test' = SelectSites(sites_arg)
    /\ IF SelectSites(sites_arg) = {}
       THEN /\ mpc' = "exited"
            /\ exit_code' = <<1>>
       ELSE /\ mpc' = "parsed"
            /\ UNCHANGED exit_code
    /\ UNCHANGED <<sites_arg, timeout_arg, session_timeout>>
    /\ UNCHANGED <<session_vars, orch_vars, report_vars>>
    /\ UNCHANGED slack_vars

\* main builds the orchestrator from --workers and the selected sites.
Construct ==
    /\ mpc = "parsed"
    /\ mpc' = "constructed"
    /\ max_workers' = PoolSize(workers_arg)
    /\ UNCHANGED <<workers_arg, behav, opc, submitted, sess, future, overtime,
                   yielded, all_results>>
    /\ UNCHANGED <<sites_arg, timeout_arg, sites_to_test, session_timeout>>
    /\ UNCHANGED <<session_vars, report_vars, exit_code>>
    /\ UNCHANGED slack_vars

\* run_all_tests opens the pool: ThreadPoolExecutor raises ValueError when
\* max_workers is not positive, nothing catches it, and the interpreter exits
\* with status 1 before a site is submitted or a report written.
StartPool ==
    /\ mpc = "constructed"
    /\ IF max_workers <= 0
       THEN /\ mpc' = "exited"
            /\ exit_code' = <<1>>
       ELSE /\ mpc' = "pooled"
            /\ UNCHANGED exit_code
    /\ UNCHANGED <<sites_arg, timeout_arg, sites_to_test, session_timeout>>
    /\ UNCHANGED <<session_vars, orch_vars, report_vars>>
    /\ UNCHANGED slack_vars

\* test_single_site makes the tester of site t.
CreateSession(t) ==
    /\ mpc = "pooled"
    /\ t \in sites_to_test
    /\ session_timeout[t] = 0
    /\ session_timeout' = [session_timeout EXCEPT ![t] = FreshTester(t).timeout]
    /\ UNCHANGED <<sites_arg, timeout_arg, mpc, sites_to_test>>
    /\ UNCHANGED <<session_vars, orch_vars, report_vars, exit_code>>
    /\ UNCHANGED slack_vars

NextMain ==
    \/ ParseArgs
    \/ Construct
    \/ StartPool
    \/ \E t \in Sites : CreateSession(t)

SpecMain == InitMain /\ [][NextMain]_vars

\* --------------------------------------------------------- slack_reporter
\* test_summary.json as the reporter finds it: absent, a JSON file of another
\* layout (no total_sites key), or the summary generate_json_summary wrote for
\* up to MaxSlackSites site records with 0 to MaxSiteFailures failed checks
\* each.  A summary without sites has total_tests = 0.
SiteRecord(name, failed) ==
    [site_name |-> name, total_tests |-> NumChecks("site"),
     passed |-> NumChecks("site") - failed, failed |-> failed, warnings |-> 0,
     skipped |-> 0, errors |-> -1,
     success_rate |-> ((NumChecks("site") - failed) * 100) \div NumChecks("site"),
     overall_status |-> "-", test_results |-> <<>>, error |-> ""]

SlackFiles ==
    {NoFile, [state |-> "foreign", json |-> generate_json_summary(<<>>)]}
    \cup {[state |-> "summary",
           json |-> generate_json_summary([i \in 1..Len(f) |-> SiteRecord(i, f[i])])] :
             f \in UNION {[1..n -> 0..MaxSiteFailures] : n \in 0..MaxSlackSites}}

\* What requests.post can do: raise, or answer with a status code.
HttpOutcomes ==
    {[raised |-> TRUE, status |-> 0]}
    \cup {[raised |-> FALSE, status |-> c] : c \in {HttpOk, 204, 500}}

\* A colour scale whose middle band ends below WarningCap.
SlackColor_Below(sites_failed) ==
    IF sites_failed = 0 THEN "good"
    ELSE IF sites_failed < WarningCap THEN "warning"
    ELSE "danger"

\* The colour of the first attachment.
SlackColor(sites_failed) ==
    IF sites_failed = 0 THEN "good"
    ELSE IF sites_failed <= WarningCap THEN "warning"
    ELSE "danger"

\* failing_sites as the loop builds it: the sites with failed > 0, in file order.
FailingSites(sites) ==
    LET f == SelectSeq(sites, LAMBDA r : r.failed > 0)
    IN [i \in 1..Len(f) |->
          [name |-> f[i].site_name, failed |-> f[i].failed, total |-> f[i].total_tests]]

\* failing_sites.sort(key=failed, reverse=True): most failures first, entries
\* with equal counts in the order they had (the sort is stable).
FailedRank(fs, i) ==
    1 + Cardinality({j \in 1..Len(fs) :
            \/ fs[j].failed > fs[i].failed
            \/ fs[j].failed = fs[i].failed /\ j < i})

SortByFailed(fs) ==
    [k \in 1..Len(fs) |-> fs[CHOOSE i \in 1..Len(fs) : FailedRank(fs, i) = k]]

\* seq[:n]
Take(seq, n) == SubSeq(seq, 1, Min(Len(seq), n))

\* The exception the try block of send_to_slack raises: open() on a missing
\* file, summary['total_sites'] on a file of another layout, the pass-rate
\* division on a summary with total_tests = 0.
PrepareError(file) ==
    CASE file.state = "missing" -> "FileNotFoundError"
      [] file.state = "foreign" -> "KeyError"
      [] file.json.total_tests = 0 -> "ZeroDivisionError"
      [] OTHER -> "none"

\* except Exception: the exceptions the handler catches.
Caught(e) == e \in {"FileNotFoundError", "KeyError", "ZeroDivisionError"}

\* send_to_slack: raised tells whether an exception leaves the call; value is
\* <<>> for None, returned by the handler, and otherwise the message, of which
\* the model keeps the colour and the 'Sites Requiring Attention' attachment
\* (absent: <<>>).
send_to_slack(file) ==
    LET e == PrepareError(file)
    IN IF e # "none"
       THEN [raised |-> ~Caught(e), value |-> <<>>]
       ELSE LET fs == SortByFailed(FailingSites(file.json.sites))
            IN [raised |-> FALSE,
                value |-> << [color |-> SlackColor(file.json.sites_failed),
                              attention |-> IF fs # <<>>
                                            THEN <<Take(fs, AttentionCap)>>
                                            ELSE <<>>] >>]

\* A send_via_webhook that takes every 2xx answer as delivered.
send_via_webhook_Any2xx(resp) == ~resp.raised /\ resp.status \in 200..299

\* send_via_webhook: its return value.
send_via_webhook(resp) == ~resp.raised /\ resp.status = HttpOk

InitSlack ==
    /\ kind = "site"
    /\ env = EnvOf("site", <<>>)
    /\ tester = NewTester
    /\ tpc = "off"
    /\ summary = NoSummary
    /\ OrchestratorOff
    /\ exit_code = <<>>
    /\ ReportsOff
    /\ CliOff
    /\ slack_file \in SlackFiles
    /\ webhook_set \in BOOLEAN
    /\ http \in (IF webhook_set THEN HttpOutcomes ELSE {NoResponse})
    /\ message = <<>>
    /\ spc = "start"
    /\ sent = <<>>
    /\ posts = 0

\* message = reporter.send_to_slack(channel)
SlackPrepare ==
    /\ spc = "start"
    /\ LET r == send_to_slack(slack_file)
       IN /\ message' = r.value
          /\ spc' = IF r.raised THEN "raised" ELSE "prepared"
    /\ UNCHANGED <<slack_file, webhook_set, http, sent, posts>>
    /\ UNCHANGED <<session_vars, orch_vars, exit_code, report_vars, cli_vars>>

\* if message: with a webhook URL in the environment, post the message.
SlackPost ==
    /\ spc = "prepared"
    /\ message # <<>>
    /\ webhook_set
    /\ posts' = posts + 1
    /\ sent' = <<send_via_webhook(http)>>
    /\ spc' = "done"
    /\ UNCHANGED <<slack_file, webhook_set, http, message>>
    /\ UNCHANGED <<session_vars, orch_vars, exit_code, report_vars, cli_vars>>

\* No message, or no webhook URL (the message is printed): nothing is posted.
SlackNoPost ==
    /\ spc = "prepared"
    /\ message = <<>> \/ ~webhook_set
    /\ spc' = "done"
    /\ UNCHANGED <<slack_file, webhook_set, http, message, sent, posts>>
    /\ UNCHANGED <<session_vars, orch_vars, exit_code, report_vars, cli_vars>>

NextSlack == SlackPrepare \/ SlackPost \/ SlackNoPost

SpecSlack == InitSlack /\ [][NextSlack]_vars

\* ================================================================ claims
Entries(t) == {i \in 1..Len(all_results) : all_results[i].site_name = t}

\* C1: when run_all_tests has returned on a fresh orchestrator, all_results
\* holds exactly one entry per input site: as many entries as sites, and each
\* site name exactly once, whatever mix of sessions passed, failed, failed to
\* create a driver or raised.
C1_OneEntryPerTarget ==
    opc = "returned" =>
        /\ Len(all_results) = NumSites
        /\ \A t \in Sites : Cardinality(Entries(t)) = 1

C1_Witness ==
    /\ opc = "returned"
    /\ \E a, b \in Sites : behav[a] = "fatal" /\ behav[b] = "nochrome"

\* C2: a site whose session ran past the result timeout ends up with the
\* synthetic record (failed = 1, a single ERROR verdict) in all_results, even
\* if all its checks pass.
C2_TimeoutRecorded ==
    opc = "returned" =>
        \A t \in Sites :
            overtime[t] => \E i \in Entries(t) : all_results[i] = ExecutionRecord(t)

\* C3: run_all_tests never waits without bound: as long as it has not
\* returned, some step of the run can be taken.
C3_NoUnboundedWait == opc = "returned" \/ ENABLED Next

\* C4: at every instant at most max_workers browser drivers are live
\* (created and not quit).
C4_LiveDriversBounded ==
    Cardinality({t \in Sites : sess[t].tester.driver = "live"}) <= max_workers

\* The record of site t when its session runs alone.
RunAlone(t) ==
    LET e  == ScenarioEnv(behav[t])
        s0 == create_driver("site", e[0], NewTester)
        s2 == Cleanup("site", e[NumChecks("site") + 1], RunSuite("site", e, s0))
    IN IF ~s0.ret THEN SetupFailedSummary("site", t, s0.results)
       ELSE test_single_site(t, s2.raised \/ behav[t] = "fatal", s2.results)

FailingScenarios == {"nochrome", "configfail", "loadtimeout", "fatal"}

\* C5: when site A's session fails to create its driver, fails its homepage
\* load or raises, every other site B that has been collected has its own
\* entry in all_results, with the verdict list B produces when run alone;
\* and, no session hanging, such a run is never stuck before it has returned.
C5_SiblingsIsolated ==
    /\ \A a, b \in Sites :
          (a # b /\ behav[a] \in FailingScenarios /\ b \in yielded) =>
              /\ Entries(b) # {}
              /\ \A i \in Entries(b) :
                    all_results[i].test_results = RunAlone(b).test_results
    /\ ((\E a \in Sites : behav[a] \in FailingScenarios)
           /\ (\A t \in Sites : behav[t] # "hang")) =>
          (opc = "returned" \/ ENABLED Next)

C5_Witness ==
    /\ opc = "returned"
    /\ \E a, b \in Sites :
          /\ a < b
          /\ behav[a] = "nochrome"
          /\ behav[b] = "checkfail"
          /\ Len(all_results[CHOOSE i \in Entries(b) : TRUE].test_results) = 6

\* C6: in every tester a session whose homepage load timed out ends with a
\* verdict list of exactly one verdict, the FAIL of the page-load check.
C6_LoadTimeoutSingleVerdict ==
    (tpc = "returned" /\ env[0].exc = "none" /\ env[1].exc = "timeout") =>
        /\ Len(tester.results) = 1
        /\ tester.results[1].status = "FAIL"

\* C7: after a homepage-load FAIL in NBCSiteTester.run_tests no other check
\* is called, each of the five is recorded as SKIP, and the summary has
\* failed = 1, skipped = 5, passed = 0 and success_rate = 0.
C7_SkipAfterHomepageFail ==
    (kind = "site" /\ tpc = "returned" /\ env[0].exc = "none"
        /\ tester.results[1].status = "FAIL") =>
        /\ tester.invoked = <<"Homepage Load">>
        /\ Len(tester.results) = 6
        /\ \A i \in 2..6 : tester.results[i] = Verdict(SiteChecks[i].name, "SKIP")
        /\ summary.test_results = tester.results
        /\ summary.failed = 1
        /\ summary.skipped = 5
        /\ summary.passed = 0
        /\ summary.success_rate = 0

C7_Witness ==
    /\ kind = "site"
    /\ tpc = "returned"
    /\ env[1].exc = "error"
    /\ summary.skipped = 5

\* C8: when driver creation fails, in each of the three testers, the session
\* returns a result whose verdict list is exactly one ERROR verdict, no check
\* was called, and the session counts as failed (failed >= 1 for the site
\* tester, overall_status FAIL for the station testers).
C8_DriverFailureSingleError ==
    (tpc # "new" /\ env[0].exc # "none") =>
        /\ tpc = "returned"
        /\ tester.results = <<Verdict(SetupName(kind), "ERROR")>>
        /\ tester.invoked = <<>>
        /\ summary.test_results = tester.results
        /\ IF kind = "site" THEN summary.failed >= 1
           ELSE summary.overall_status = "FAIL"

C8_Witness ==
    /\ tpc = "returned"
    /\ kind = "multi"
    /\ env[0].exc = "configfail"
    /\ summary.overall_status = "FAIL"

\* C9: when a session has ended, by return or by exception, no browser
\* driver it created is still live.
C9_DriverAlwaysQuit ==
    tpc \in {"returned", "raised"} => tester.driver # "live"

\* C10: no check method lets an exception out: when the try body of the run
\* is over, no exception is on its way out of it.
C10_NoCheckEscapes == tpc = "ran" => ~tester.raised

\* C11: once the homepage has loaded without a load timeout, every configured
\* check of the session is called and records its verdict, whatever the
\* outcome of the checks before it, a page-load check that fails only because
\* the load was slow included.
C11_ChecksIndependent ==
    (tpc = "returned" /\ env[0].exc = "none" /\ env[1].exc = "none") =>
        /\ Len(tester.invoked) = NumChecks(kind)
        /\ \A i \in 1..NumChecks(kind) :
              /\ tester.invoked[i] = Checks(kind)[i].name
              /\ tester.results[i].test = Checks(kind)[i].name

HasFailure(results) ==
    \E i \in 1..Len(results) : results[i].status \in {"FAIL", "ERROR"}

\* C12: the summary a session returns says FAIL exactly when its verdict list
\* holds a FAIL or an ERROR verdict, and PASS otherwise; for the site tester,
\* failed > 0 exactly when it does.  WARNING and SKIP verdicts do not count.
C12_OverallStatus ==
    tpc = "returned" =>
        /\ summary.test_results = tester.results
        /\ IF kind = "site"
           THEN (summary.failed > 0) <=> HasFailure(tester.results)
           ELSE summary.overall_status =
                    (IF HasFailure(tester.results) THEN "FAIL" ELSE "PASS")

C12_Witness ==
    /\ tpc = "returned"
    /\ kind = "multi"
    /\ summary.warnings > 0
    /\ summary.total_tests = NumChecks("multi")
    /\ summary.overall_status = "PASS"

\* C13: the exit status of each entry point is non-zero whenever a target it
\* tested has a FAIL or ERROR verdict, and zero when every target passes.
C13_ExitCodeSignalsFailure ==
    /\ (tpc = "returned" /\ exit_code # <<>>) =>
          ((exit_code[1] # 0) <=> HasFailure(summary.test_results))
    /\ (opc = "returned" /\ exit_code # <<>>) =>
          ((exit_code[1] # 0) <=>
              \E i \in 1..Len(all_results) : HasFailure(all_results[i].test_results))

\* C14: a second call of run_all_tests on the same sites, whose sessions give
\* the same verdicts, returns the list the first call returned: same entries,
\* same count, same order, on the same orchestrator and on a fresh one.
C14_RerunSameResults ==
    (opc = "returned" /\ run # "first") => all_results = first.returned

\* C15: two runs on the same sites and verdicts hand the site entries to
\* reporting in the same order: the returned list, the sites of
\* test_summary.json and the rows of the HTML table.
C15_ReportOrderDeterministic ==
    (opc = "returned" /\ run = "fresh") =>
        /\ NamesOf(all_results) = NamesOf(first.returned)
        /\ NamesOf(reports.json.sites) = NamesOf(first.reports.json.sites)
        /\ reports.html = first.reports.html

\* C16: whatever max_workers the caller asks for, the pool size is
\* min(max_workers, 10): a request above 10 gives 10, a smaller one is taken
\* as it is, and never more sessions are in flight than the pool size.
C16_PoolSizeCapped ==
    /\ max_workers = (IF workers_arg > 10 THEN 10 ELSE workers_arg)
    /\ max_workers <= 10
    /\ Cardinality(Running) <= max_workers

C16_Witness ==
    /\ workers_arg > 10
    /\ max_workers = 10
    /\ Cardinality(Running) = NumSites

\* C17: when a weather-page check returns, the browser shows the station's
\* homepage again: the check called after it finds the homepage.
C17_WeatherCheckReturnsHome ==
    tpc = "ran" =>
        \A i \in 1..(Len(tester.invoked) - 1) :
            tester.invoked[i] \in WeatherChecks => tester.seen[i + 1] = "home"

\* C18: what the command line of nbc_multi_site_tester gives reaches the run:
\* the sites named by --sites are the sites tested, --workers sets the pool
\* size (capped at 10), and every session's tester has the --timeout value as
\* its timeout.
C18_CliReachesRun ==
    mpc \in {"constructed", "pooled"} =>
        /\ sites_to_test =
              (IF sites_arg.given /\ sites_arg.names # {}
               THEN {t \in Sites : t \in sites_arg.names} ELSE Sites)
        /\ max_workers = (IF workers_arg > 10 THEN 10 ELSE workers_arg)
        /\ \A t \in sites_to_test :
              session_timeout[t] # 0 => session_timeout[t] = timeout_arg

\* C19: with its driver created, NBCSiteTester.run_tests calls its checks in
\* the configured sequence and returns exactly six verdicts, in the order
\* Homepage Load, Navigation Menu, Search Feature, Content Articles, Footer
\* Section, Responsive Elements, whatever each check found; the verdict of the
\* i-th check called is the i-th of test_results.
C19_SixVerdictsInOrder ==
    (kind = "site" /\ tpc = "returned" /\ env[0].exc = "none") =>
        /\ [i \in 1..Len(tester.results) |-> tester.results[i].test] =
              <<"Homepage Load", "Navigation Menu", "Search Feature",
                "Content Articles", "Footer Section", "Responsive Elements">>
        /\ summary.test_results = tester.results
        /\ Len(tester.invoked) \in {1, 6}
        /\ \A i \in 1..Len(tester.invoked) :
              tester.invoked[i] = tester.results[i].test

C19_Witness ==
    /\ kind = "site"
    /\ tpc = "returned"
    /\ Len(tester.invoked) = 6
    /\ tester.results[2].status = "FAIL"
    /\ tester.results[5].status = "WARNING"
    /\ tester.results[6].status = "PASS"

\* C20: no result is collected before every site has been submitted, only a
\* session that has completed has an entry in all_results, and each result
\* collected goes behind the ones collected before it: a session collected
\* before another one completes has its entry in front of the other's.
C20_SubmittedThenCompletionOrder ==
    /\ [](Len(all_results) > 0 => submitted = NumSites)
    /\ [](\A b \in Sites : sess[b].pc # "done" => Entries(b) = {})
    /\ [][all_results' # all_results =>
            \E t \in Completed :
               /\ Len(all_results') = Len(all_results) + 1
               /\ SubSeq(all_results', 1, Len(all_results)) = all_results
               /\ all_results'[Len(all_results')].site_name = t]_vars

C20_Witness ==
    /\ NumSites \in yielded
    /\ sess[1].pc \in {"ready", "ran"}
    /\ all_results[1].site_name = NumSites

\* The tester of site t when its session runs alone, at the end of the call.
AloneTester(t) ==
    LET e  == ScenarioEnv(behav[t])
        s0 == create_driver("site", e[0], [NewTester EXCEPT !.owner = t])
    IN IF ~s0.ret THEN s0
       ELSE Cleanup("site", e[NumChecks("site") + 1], RunSuite("site", e, s0))

\* C21: every session in flight has a tester and a browser driver of its own:
\* no two running sessions hold the same tester or the same driver object,
\* and the results list of a finished session holds the verdicts of its own
\* checks and nothing else.
C21_OwnDriverAndResults ==
    /\ \A a, b \in Running :
          a # b =>
              /\ sess[a].tester.owner # sess[b].tester.owner
              /\ (sess[a].tester.driver # "none" /\ sess[b].tester.driver # "none")
                    => sess[a].tester.driver_by # sess[b].tester.driver_by
    /\ \A t \in Sites :
          sess[t].pc \in {"started", "ready", "ran", "done"} =>
              /\ sess[t].tester.owner = t
              /\ sess[t].tester.driver # "none" => sess[t].tester.driver_by = t
    /\ \A t \in Sites :
          sess[t].pc = "done" => sess[t].tester.results = AloneTester(t).results

C21_Witness ==
    \E a, b \in Running :
        /\ a # b
        /\ sess[a].tester.driver = "live"
        /\ sess[b].tester.driver = "live"
        /\ Len(sess[a].tester.results) > 0
        /\ sess[b].tester.results = <<>>

\* The verdicts of the checks: the list without the verdict of a failed setup.
CheckVerdicts(k, results) ==
    SelectSeq(results, LAMBDA v : v.test # SetupName(k))

\* C22: in both station testers every call of a check method appends exactly
\* one verdict, whatever path the call takes, exception paths included: the
\* verdicts follow the invocations one to one.  A run that calls all of its
\* checks holds exactly 15 verdicts (nbc_test) or 13 (multi_nbc_test), one
\* under each check name and no name twice.
C22_OneVerdictPerInvocation ==
    kind \in {"nbc", "multi"} =>
        LET v == CheckVerdicts(kind, tester.results)
        IN /\ Len(v) = Len(tester.invoked)
           /\ \A j \in 1..Len(v) : v[j].test = tester.invoked[j]
           /\ Len(tester.invoked) = NumChecks(kind) =>
                 /\ Len(tester.results) = (IF kind = "nbc" THEN 15 ELSE 13)
                 /\ {tester.results[j].test : j \in 1..Len(tester.results)}
                       = {Checks(kind)[j].name : j \in 1..NumChecks(kind)}
                 /\ \A a, b \in 1..Len(tester.results) :
                       tester.results[a].test = tester.results[b].test => a = b

C22_Witness ==
    /\ kind = "nbc"
    /\ tpc = "returned"
    /\ Len(tester.invoked) = NumChecks("nbc")
    /\ env[6].exc = "late"
    /\ \E j \in 1..NumChecks("nbc") : env[j].exc \in {"error", "dead"}

\* A step of a pool thread: the session of some site moves on.
WorkerStep ==
    \E t \in Sites :
        /\ sess[t].pc \in {"pending", "started", "ready", "ran"}
        /\ sess'[t] # sess[t]

\* C23: the pool threads never write the orchestrator's state: a step of a
\* session leaves all_results and the loop's bookkeeping alone, all_results
\* changes only by the collection loop appending the result of one finished
\* future that it has not collected yet, and so under every interleaving
\* each collected site has exactly one entry and no other site has any.
C23_OnlyOrchestratorAppends ==
    /\ [][WorkerStep => UNCHANGED <<all_results, yielded, opc, submitted,
                                     max_workers, reports>>]_vars
    /\ [][all_results' # all_results =>
            \E t \in Sites :
               /\ sess[t].pc = "done"
               /\ t \notin yielded
               /\ yielded' = yielded \cup {t}
               /\ all_results' = Append(all_results, all_results'[Len(all_results')])
               /\ all_results'[Len(all_results')].site_name = t
               /\ UNCHANGED <<sess, future>>]_vars
    /\ [](\A t \in Sites :
            Cardinality(Entries(t)) = IF t \in yielded THEN 1 ELSE 0)
    /\ [](opc = "returned" => yielded = Sites)

C23_Witness ==
    \E a, b \in Sites :
        /\ a \in yielded
        /\ Cardinality(Entries(a)) = 1
        /\ sess[b].pc = "ran"
        /\ Entries(b) = {}

\* A counter a record does not carry (-1) counts as 0.
Counter(r, f) == IF r[f] = -1 THEN 0 ELSE r[f]

\* The counters of a record add up to its total, which is the length of its
\* verdict list.
CountersAddUp(r) ==
    /\ r.total_tests = Len(r.test_results)
    /\ r.total_tests >= 1
    /\ r.total_tests = r.passed + r.failed + r.warnings
                         + Counter(r, "skipped") + Counter(r, "errors")

\* C24: every record that can reach all_results (the summary of a session
\* that ran, the record of a failed driver setup, the record of a session that
\* raised and the record of a future whose result raised) has total_tests
\* equal to the length of its verdict list, at least 1, and equal to
\* passed + failed + warnings + skipped; every summary of a station tester has
\* total_tests = passed + failed + warnings + errors.
C24_CountersAddUp ==
    /\ tpc = "returned" =>
          /\ CountersAddUp(summary)
          /\ kind = "site" => summary.errors = -1
          /\ kind # "site" => summary.skipped = -1
    /\ \A t \in Sites : CountersAddUp(FatalRecord(t)) /\ CountersAddUp(ExecutionRecord(t))

C24_Witness ==
    /\ tpc = "returned"
    /\ kind = "site"
    /\ summary.total_tests = NumChecks("site")
    /\ summary.failed > 0
    /\ summary.skipped > 0

\* C25: in test_summary.json sites_passed + sites_failed = total_sites = the
\* number of input targets, a record that carries an error counting as failed
\* once, and total_tests, total_passed, total_failed and total_warnings are
\* the sums of the per-site counters.
C25_SummaryTotals ==
    reports.written =>
        LET j == reports.json
        IN /\ j.sites_passed + j.sites_failed = j.total_sites
           /\ j.total_sites = NumSites
           /\ j.total_tests = SumField(j.sites, "total_tests")
           /\ j.total_passed = SumField(j.sites, "passed")
           /\ j.total_failed = SumField(j.sites, "failed")
           /\ j.total_warnings = SumField(j.sites, "warnings")

\* C26: the reports are generated only after every submitted session has
\* finished and its result is in all_results: no report is built from a
\* partial list, and no session is still running when run_all_tests has
\* returned.
C26_ReportsAfterAllSessions ==
    /\ [][reports' # reports =>
            /\ submitted = NumSites
            /\ \A t \in Sites :
                  sess[t].pc = "done" /\ t \in yielded /\ Entries(t) # {}
            /\ reports'.json.sites = all_results
            /\ reports'.json.total_sites = NumSites
            /\ Len(reports'.html) = NumSites]_vars
    /\ [](reports.written => opc = "returned")
    /\ [](opc = "returned" =>
            /\ Running = {}
            /\ \A t \in Sites : sess[t].pc = "done")

C26_Witness ==
    /\ reports.written
    /\ opc = "returned"
    /\ \E t \in Sites : behav[t] = "slowpass"
    /\ \E t \in Sites : behav[t] = "fatal"

\* C27: the three testers grade the measured load time of the homepage the
\* same way: under 5 s PASS, from 5 s to under 10 s WARNING, 10 s and more
\* FAIL.
C27_LoadTimeGradedAlike ==
    (Len(tester.invoked) >= 1 /\ env[1].exc = "none") =>
        tester.results[1].status =
            (IF env[1].val < 5 * 1000 THEN "PASS"
             ELSE IF env[1].val < 10 * 1000 THEN "WARNING"
             ELSE "FAIL")

\* C28: whatever integer --workers / max_workers is, zero and negative values
\* included, the run goes on with a pool of at least one worker: main gives
\* up only when no site matches, and the pool run_all_tests opens has one
\* worker or more.
C28_AnyWorkerCountRuns ==
    /\ mpc \in {"constructed", "pooled"} => max_workers >= 1
    /\ mpc = "exited" => SelectSites(sites_arg) = {}

\* C29: the colour of the Slack message is 'good' exactly when sites_failed is
\* 0, 'warning' exactly when it is 1 to 5 and 'danger' exactly when it is
\* above 5.  The 'Sites Requiring Attention' attachment is there exactly when
\* some site has failed > 0; it lists only such sites, each once, in
\* non-increasing order of failed, and at most 5 of them.
C29_ColourAndAttention ==
    (spc \in {"prepared", "done"} /\ message # <<>>) =>
        LET m == message[1]
            j == slack_file.json
            failing == {i \in 1..Len(j.sites) : j.sites[i].failed > 0}
        IN /\ (m.color = "good") <=> (j.sites_failed = 0)
           /\ (m.color = "warning") <=> (j.sites_failed \in 1..5)
           /\ (m.color = "danger") <=> (j.sites_failed > 5)
           /\ (m.attention # <<>>) <=> (failing # {})
           /\ m.attention # <<>> =>
                LET a == m.attention[1]
                IN /\ Len(a) >= 1
                   /\ Len(a) <= 5
                   /\ \A k \in 1..Len(a) :
                         \E i \in failing :
                            /\ a[k].name = j.sites[i].site_name
                            /\ a[k].failed = j.sites[i].failed
                   /\ \A k, l \in 1..Len(a) : a[k].name = a[l].name => k = l
                   /\ \A k \in 1..(Len(a) - 1) : a[k].failed >= a[k + 1].failed

C29_Witness ==
    /\ spc = "done"
    /\ message # <<>>
    /\ message[1].color = "danger"
    /\ message[1].attention # <<>>
    /\ Len(message[1].attention[1]) = AttentionCap
    /\ message[1].attention[1][1].failed > message[1].attention[1][AttentionCap].failed

\* C30: send_to_slack never lets an exception out: when test_summary.json is
\* missing, lacks a field or has total_tests = 0 it returns None and the main
\* block posts nothing.  send_via_webhook returns True exactly when the HTTP
\* status is 200, and False on any other status and when the request raises.
C30_SlackNeverRaises ==
    /\ spc # "raised"
    /\ (spc \in {"prepared", "done"}
          /\ (slack_file.state # "summary" \/ slack_file.json.total_tests = 0))
         => message = <<>> /\ posts = 0 /\ sent = <<>>
    /\ sent # <<>> =>
          /\ posts = 1
          /\ sent[1] \in BOOLEAN
          /\ sent[1] <=> (~http.raised /\ http.status = 200)

C30_Witness ==
    /\ spc = "done"
    /\ sent = <<FALSE>>
    /\ ~http.raised
    /\ http.status = 204

====
